---- MODULE Spec2Model ----
(***************************************************************************)
(* Model of the crash-diagnostics script parser (Parse, enforceDefaults)   *)
(* and of the executor (Executor.Execute, writeFile).                      *)
(*                                                                         *)
(* A script is a sequence of lines; a line is the sequence of its words    *)
(* after TrimSpace: <<>> is a blank line, a line whose first word is "#"   *)
(* is a comment, otherwise the first word is the directive name and the    *)
(* remaining words are its raw arguments.  File-system paths are           *)
(* sequences of components, a component is a sequence of one-character     *)
(* strings, so that string prefix tests are computed and not assumed.      *)
(***************************************************************************)
EXTENDS Integers, Sequences, FiniteSets, TLC

\* ------------------------------------------------------------------ bounds
MaxLines == 3

\* ------------------------------------------------------- directive names
CmdAs == "AS"
CmdEnv == "ENV"
CmdFrom == "FROM"
CmdKubeConfig == "KUBECONFIG"
CmdAuthConfig == "AUTHCONFIG"
CmdOutput == "OUTPUT"
CmdWorkDir == "WORKDIR"
CmdCapture == "CAPTURE"
CmdCopy == "COPY"
CmdRun == "RUN"
CmdKubeGet == "KUBEGET"

ConfigDirectives == {CmdAs, CmdFrom, CmdAuthConfig, CmdOutput, CmdWorkDir, CmdKubeConfig}
ActionDirectives == {CmdCapture, CmdCopy, CmdRun, CmdKubeGet}

\* script.Cmds: the capability table (supported flag, minimum arguments)
Cmds == [n \in ConfigDirectives \cup ActionDirectives \cup {CmdEnv} |-> [Supported |-> TRUE, MinArgs |-> 1]]

Supported(cmdName) == cmdName \in DOMAIN Cmds /\ Cmds[cmdName].Supported

\* ------------------------------------------------------------ path values
PW == << <<"w">> >>
PV == << <<"v">> >>
PO == << <<"o">> >>
POA == << <<"o">>, <<"a">> >>
POD == << <<"o">>, <<"d">> >>
PODA == << <<"o">>, <<"d">>, <<"a">> >>
POL == << <<"o">>, <<"l">> >>
PODE == << <<"o">>, <<"d">>, <<"e">> >>
PODEA == << <<"o">>, <<"d">>, <<"e">>, <<"a">> >>
PWS == << <<"w">>, <<"s">> >>
PWSG == << <<"w">>, <<"s">>, <<"g">> >>
PWC == << <<"w">>, <<".", ".", "c">> >>
PWCF == << <<"w">>, <<".", ".", "c">>, <<"f">> >>
PWG == << <<"w">>, <<".", ".", "g">> >>
POX == << <<"o">>, <<"x">> >>
PKube == << <<"k">> >>
POut == << <<"t">> >>
PP == << <<"p">> >>
PPB == << <<"p">>, <<"b">> >>
PPC == << <<"p">>, <<"c">> >>
PPH == << <<"p">>, <<"h">> >>
PWFifo == << <<"w">>, <<"b">> >>
PWSock == << <<"w">>, <<"c">> >>
PWFifoH == << <<"w">>, <<"h">> >>
PWCatTxt == << <<"w">>, <<"c", "a", "t", ".", "t", "x", "t">> >>
PWPsTxt == << <<"w">>, <<"p", "s", ".", "t", "x", "t">> >>
PWLsTxt == << <<"w">>, <<"l", "s", "_", "_", ".", "t", "x", "t">> >>

\* command-line strings of CAPTURE actions, as character sequences
CliEcho == <<"e", " ", "H">>
CliLs == <<"l", "s", " ", ".">>
CliCat == <<"c", "a", "t">>
CliPs == <<"p", "s">>

\* a raw argument that is not a well-formed parameter
BadArg == <<"!">>

\* users, nodes and environment entries, as character sequences
UserRoot == <<"r", "o", "o", "t">>
UserFoo == <<"f", "o", "o">>
UserSelf == <<"0">>
NodeLocal == <<"l", "o", "c", "a", "l">>
Node1 == <<"n", "1">>
Node2 == <<"n", "2">>
EnvA1 == <<"A", "=", "1">>
EnvB2 == <<"B", "=", "2">>
EnvA3 == <<"A", "=", "3">>
AuthUser == <<"u">>
AuthKey == <<"k">>
RunCmd == <<"x">>

\* ------------------------------------------------------------- defaults
\* script.Defaults and the values enforceDefaults formats
DefaultAsArgs == <<UserSelf>>
DefaultFromArgs == <<NodeLocal>>
DefaultAuthArgs == <<AuthUser, AuthKey>>
DefaultWorkdirArgs == <<PW>>
DefaultOutputArgs == <<POut>>
DefaultKubeConfigArgs == <<PKube>>

\* ------------------------------------------------------ command model
\* a constructor result: either an error or a Command
CmdErr(cmdName, lineNo) == [err |-> TRUE, name |-> cmdName, line |-> lineNo]
CmdOk(cmdName, lineNo, rawArgs) == [err |-> FALSE, cmd |-> [name |-> cmdName, line |-> lineNo, args |-> rawArgs]]

\* validateRawArgs: an empty argument string is rejected when MinArgs > 0
validateRawArgs(cmdName, rawArgs) ==
  IF cmdName \notin DOMAIN Cmds THEN FALSE
  ELSE ~(Len(rawArgs) = 0 /\ Cmds[cmdName].MinArgs > 0)

\* script.New<X>Command(line, rawArgs)
NewCommand(cmdName, lineNo, rawArgs) ==
  IF ~validateRawArgs(cmdName, rawArgs) THEN CmdErr(cmdName, lineNo)
  ELSE IF \E i \in 1..Len(rawArgs) : rawArgs[i] = BadArg THEN CmdErr(cmdName, lineNo)
  ELSE CmdOk(cmdName, lineNo, rawArgs)

\* ------------------------------------------------------------ the script
EmptyScript == [Preambles |-> <<>>, Actions |-> <<>>]

\* scr.Preambles[k] = v
MapSet(m, k, v) == [x \in (DOMAIN m) \cup {k} |-> IF x = k THEN v ELSE m[x]]

\* scr.Preambles[k] on a Go map: the zero value (nil slice) when absent
MapGet(m, k) == IF k \in DOMAIN m THEN m[k] ELSE <<>>

\* ------------------------------------------------------------ file system
\* the bytes of a file or of a stream, run-length encoded: a sequence of
\* runs of n equal bytes b, adjacent runs holding different bytes
Run(b, n) == [b |-> b, n |-> n]
RECURSIVE Bytes(_), Size(_)
Bytes(s) ==
  IF Len(s) = 0 THEN <<>>
  ELSE LET r == Bytes(Tail(s))
       IN IF Len(r) > 0 /\ r[1].b = Head(s)
            THEN <<Run(Head(s), r[1].n + 1)>> \o Tail(r)
            ELSE <<Run(Head(s), 1)>> \o r
Size(c) == IF Len(c) = 0 THEN 0 ELSE Head(c).n + Size(Tail(c))

\* the capacity of a pipe: a write into a FIFO nobody reads blocks for good
\* once that many bytes are in it
\* a pipe holds PipeSlots buffers of one page each
PageSize == 4096
PipeSlots == 16
PipeBuf == PipeSlots * PageSize
BigBytes == <<Run(0, PipeBuf + 1)>>

\* the buffer io.Copy reads into when neither end moves the bytes itself
CopyBuf == 32768

Min(a, b) == IF a < b THEN a ELSE b

\* one write of n bytes into a pipe nobody reads, with slots buffers in use
\* and last bytes in the newest one: the odd bytes of n go into the newest
\* buffer when they fit there, everything else takes fresh buffers, a page
\* each; the write blocks when the buffers run out
PipeWrite(slots, last, n) ==
  LET chars == n % PageSize
      merge == chars # 0 /\ slots > 0 /\ last + chars <= PageSize
      rest  == IF merge THEN n - chars ELSE n
      pages == (rest + PageSize - 1) \div PageSize
  IN [full  |-> slots + pages > PipeSlots,
      slots |-> slots + pages,
      last  |-> IF rest = 0 THEN last + chars
                ELSE IF rest % PageSize = 0 THEN PageSize ELSE rest % PageSize]

\* the loop of io.Copy over a source of size bytes, one Write of at most
\* piece bytes per Read: TRUE when one of the writes blocks. Pieces that all
\* fit into the newest buffer are taken in one step.
RECURSIVE PipeBlocks(_, _, _, _)
PipeBlocks(slots, last, size, piece) ==
  IF size = 0 THEN FALSE
  ELSE IF slots > 0 /\ size >= piece /\ last + piece <= PageSize
    THEN LET m == Min((PageSize - last) \div piece, size \div piece)
         IN PipeBlocks(slots, last + m * piece, size - m * piece, piece)
  ELSE LET w == PipeWrite(slots, last, Min(piece, size))
       IN IF w.full THEN TRUE
          ELSE PipeBlocks(w.slots, w.last, size - Min(piece, size), piece)

\* a file system maps each existing absolute path to its kind and bytes;
\* the root <<>> is always a directory
RootEntry == [kind |-> "dir", content |-> <<>>]
DirEntry == [kind |-> "dir", content |-> <<>>]
RegEntry(bytes) == [kind |-> "reg", content |-> bytes]
FifoEntry == [kind |-> "fifo", content |-> <<>>]
SocketEntry == [kind |-> "socket", content |-> <<>>]

InitialFS ==
  (<<>> :> RootEntry) @@ (PO :> DirEntry) @@ (POA :> RegEntry(Bytes(<<1, 2>>))) @@ (POD :> DirEntry)
  @@ (PODA :> RegEntry(Bytes(<<3>>))) @@ (POL :> FifoEntry)
  @@ (PODE :> DirEntry) @@ (PODEA :> RegEntry(Bytes(<<6, 6, 6>>)))
  @@ (PW :> DirEntry) @@ (PWS :> DirEntry) @@ (PWSG :> RegEntry(Bytes(<<4>>)))
  @@ (PWC :> DirEntry) @@ (PWCF :> RegEntry(Bytes(<<5, 6>>))) @@ (PWG :> RegEntry(Bytes(<<4, 4>>)))
  @@ (PP :> DirEntry) @@ (PPB :> RegEntry(Bytes(<<9>>))) @@ (PPC :> RegEntry(Bytes(<<9, 9>>)))
  @@ (PPH :> RegEntry(BigBytes))
  @@ (PWFifo :> FifoEntry) @@ (PWSock :> SocketEntry) @@ (PWFifoH :> FifoEntry)
  @@ (PWCatTxt :> FifoEntry) @@ (PWPsTxt :> SocketEntry) @@ (PWLsTxt :> RegEntry(Bytes(<<5>>)))

Exists(f, p) == p \in DOMAIN f
IsDir(f, p) == Exists(f, p) /\ f[p].kind = "dir"
Parent(p) == SubSeq(p, 1, Len(p) - 1)
Base(p) == p[Len(p)]
FsPut(f, p, e) == [x \in (DOMAIN f) \cup {p} |-> IF x = p THEN e ELSE f[x]]

\* os.MkdirAll: an existing directory is fine, an existing non-directory on
\* the way is an error and nothing is created
RECURSIVE MkdirAll(_, _)
MkdirAll(f, p) ==
  IF Exists(f, p) THEN (IF f[p].kind = "dir" THEN [err |-> FALSE, fs |-> f] ELSE [err |-> TRUE, fs |-> f])
  ELSE LET r == MkdirAll(f, Parent(p)) IN
    IF r.err THEN r ELSE [err |-> FALSE, fs |-> FsPut(r.fs, p, DirEntry)]

\* os.Create: O_RDWR|O_CREATE|O_TRUNC. A directory, a missing parent and a
\* unix socket fail; a FIFO opens and stays what it is; anything else is a
\* regular file of length 0 afterwards
CreateFile(f, p) ==
  IF IsDir(f, p) \/ ~IsDir(f, Parent(p)) THEN [err |-> TRUE, fs |-> f]
  ELSE IF Exists(f, p) /\ f[p].kind = "socket" THEN [err |-> TRUE, fs |-> f]
  ELSE IF Exists(f, p) /\ f[p].kind = "fifo" THEN [err |-> FALSE, fs |-> f]
  ELSE [err |-> FALSE, fs |-> FsPut(f, p, RegEntry(<<>>))]

\* io.Copy into the file os.Create opened, piece bytes per Write: bytes
\* written into a FIFO go down the pipe and leave the entry as it is, and
\* when a write finds the pipe full it blocks and io.Copy never returns
CopyBytes(f, p, bytes, piece) ==
  IF f[p].kind = "reg" THEN [hang |-> FALSE, fs |-> FsPut(f, p, RegEntry(bytes))]
  ELSE [hang |-> PipeBlocks(0, 0, Size(bytes), piece), fs |-> f]

\* ------------------------------------------------------------ path strings
DotDot == <<".", ".">>

\* a path relative to some directory, written out as a string
RECURSIVE JoinSlash(_)
JoinSlash(comps) ==
  IF Len(comps) = 0 THEN <<>>
  ELSE IF Len(comps) = 1 THEN comps[1]
  ELSE comps[1] \o <<"/">> \o JoinSlash(Tail(comps))

RECURSIVE CommonLen(_, _)
CommonLen(a, b) ==
  IF Len(a) = 0 \/ Len(b) = 0 THEN 0
  ELSE IF Head(a) = Head(b) THEN 1 + CommonLen(Tail(a), Tail(b)) ELSE 0

\* filepath.Rel(basepath, targpath) for two clean absolute paths
Rel(basepath, targpath) ==
  LET c == CommonLen(basepath, targpath)
      ups == [i \in 1..(Len(basepath) - c) |-> DotDot]
      rest == SubSeq(targpath, c + 1, Len(targpath))
  IN IF Len(ups) + Len(rest) = 0 THEN [err |-> FALSE, path |-> <<".">>]
     ELSE [err |-> FALSE, path |-> JoinSlash(ups \o rest)]

\* strings.HasPrefix
HasPrefix(str, prefix) == Len(str) >= Len(prefix) /\ SubSeq(str, 1, Len(prefix)) = prefix

\* the test of Execute that rejects a COPY path relative to the workdir
CopyPathRejected(workdir, path) ==
  LET r == Rel(workdir, path) IN ~r.err /\ ~HasPrefix(r.path, DotDot)

\* --------------------------------------------------------- filepath.Walk
CharRank == ("." :> 46) @@ ("a" :> 97) @@ ("c" :> 99) @@ ("d" :> 100) @@ ("f" :> 102)
  @@ ("g" :> 103) @@ ("l" :> 108) @@ ("o" :> 111) @@ ("s" :> 115) @@ ("t" :> 116)
  @@ ("v" :> 118) @@ ("w" :> 119) @@ ("x" :> 120) @@ ("_" :> 95) @@ ("e" :> 101)
  @@ ("H" :> 72) @@ ("k" :> 107) @@ ("b" :> 98) @@ ("p" :> 112) @@ ("h" :> 104)

RECURSIVE StrLess(_, _)
StrLess(a, b) ==
  IF Len(b) = 0 THEN FALSE
  ELSE IF Len(a) = 0 THEN TRUE
  ELSE IF Head(a) = Head(b) THEN StrLess(Tail(a), Tail(b))
  ELSE CharRank[Head(a)] < CharRank[Head(b)]

Children(f, dir) == {q \in DOMAIN f : Len(q) = Len(dir) + 1 /\ Parent(q) = dir}

\* readDirNames: the entries of a directory in lexical order
RECURSIVE SortedPaths(_)
SortedPaths(S) ==
  IF S = {} THEN <<>>
  ELSE LET m == CHOOSE x \in S : \A y \in S \ {x} : StrLess(Base(x), Base(y))
       IN <<m>> \o SortedPaths(S \ {m})

\* the walk function Execute passes to filepath.Walk, for an existing file;
\* made is the set of paths the function created, truncated or wrote
CopyWalkFn(f, workdir, file) ==
  LET subpath == Append(workdir, Base(file)) IN
  CASE f[file].kind = "dir" ->
         LET r == MkdirAll(f, subpath)
         IN [err |-> r.err, hang |-> FALSE, fs |-> r.fs, made |-> (DOMAIN r.fs) \ (DOMAIN f)]
    [] f[file].kind = "reg" ->
         LET c == CreateFile(f, subpath) IN
         IF c.err THEN [err |-> TRUE, hang |-> FALSE, fs |-> f, made |-> {}]
         ELSE LET bytes == c.fs[file].content
                  copied == CopyBytes(c.fs, subpath, bytes, CopyBuf)
              IN [err |-> ~copied.hang /\ Size(bytes) # Size(f[file].content), hang |-> copied.hang,
                  fs |-> copied.fs, made |-> {subpath}]
    [] OTHER -> [err |-> TRUE, hang |-> FALSE, fs |-> f, made |-> {}]

\* filepath.Walk: the walk stops at the first error the function returns,
\* and goes no further than a call of the function that never returns
RECURSIVE Walk(_, _, _), WalkNames(_, _, _)
Walk(f, workdir, file) ==
  IF ~Exists(f, file) THEN [err |-> TRUE, hang |-> FALSE, fs |-> f, made |-> {}]
  ELSE IF f[file].kind # "dir" THEN CopyWalkFn(f, workdir, file)
  ELSE LET names == SortedPaths(Children(f, file))
           r == CopyWalkFn(f, workdir, file)
       IN IF r.err \/ r.hang THEN r
          ELSE LET w == WalkNames(r.fs, workdir, names)
               IN [err |-> w.err, hang |-> w.hang, fs |-> w.fs, made |-> r.made \cup w.made]

WalkNames(f, workdir, names) ==
  IF Len(names) = 0 THEN [err |-> FALSE, hang |-> FALSE, fs |-> f, made |-> {}]
  ELSE LET r == Walk(f, workdir, Head(names))
       IN IF r.err \/ r.hang THEN r
          ELSE LET w == WalkNames(r.fs, workdir, Tail(names))
               IN [err |-> w.err, hang |-> w.hang, fs |-> w.fs, made |-> r.made \cup w.made]

\* --------------------------------------------------------------- capture
\* flatCmd: the command line made into a file-system-safe token
FlatChar(c) == IF c \in {" ", ".", "/", "'"} THEN "_" ELSE c
flatCmd(cmdStr) == [i \in 1..Len(cmdStr) |-> FlatChar(cmdStr[i])]

TxtSuffix == <<".", "t", "x", "t">>

\* the output file named independently of the command line
CaptureFilePathFixedName(workdir, cmdStr) == Append(workdir, <<"o", "u", "t">> \o TxtSuffix)

\* the output file named without the ".txt" suffix
CaptureFilePathNoSuffix(workdir, cmdStr) == Append(workdir, flatCmd(cmdStr))

\* filepath.Join(workdir.Dir(), fmt.Sprintf("%s.txt", flatCmd(cmdStr)))
CaptureFilePath(workdir, cmdStr) == Append(workdir, flatCmd(cmdStr) \o TxtSuffix)

\* an output of 51000 bytes
MidBytes == <<Run(7, 51000)>>

\* the reader CliRun returns: the bytes of the output and how many of them
\* one Read delivers, 0 for a reader that writes itself out in one Write
Reader(bytes, read) == [bytes |-> bytes, read |-> read]

\* what the subprocess of a command line can write to its output
Outputs(cmdStr) ==
  IF cmdStr = CliCat
    THEN {Reader(Bytes(<<7>>), 0), Reader(BigBytes, 0), Reader(MidBytes, 0), Reader(MidBytes, 3000)}
    ELSE {Reader(Bytes(<<7>>), 0), Reader(Bytes(<<8, 9>>), 0), Reader(Bytes(<<8, 9>>), 1)}

\* how CliRun and the copy of its output can end
Outcomes(cmdStr) ==
  {[kind |-> "spawnfail", bytes |-> <<>>, read |-> 0], [kind |-> "ioerr", bytes |-> <<>>, read |-> 0]}
  \cup {[kind |-> "ok", bytes |-> o.bytes, read |-> o.read] : o \in Outputs(cmdStr)}

KnownUsers == {UserRoot, UserSelf}

\* an unresolved identity falling back to the caller's own
GetCredentialsFallback(asCmd) ==
  IF asCmd.args[1] \in KnownUsers THEN [err |-> FALSE, uid |-> asCmd.args[1]] ELSE [err |-> FALSE, uid |-> UserSelf]

\* AsCommand.GetCredentials: the users that resolve to numeric ids
GetCredentials(asCmd) ==
  IF asCmd.args[1] \in KnownUsers THEN [err |-> FALSE, uid |-> asCmd.args[1]] ELSE [err |-> TRUE, uid |-> <<>>]

\* FromCommand.Sources, WorkdirCommand.Dir, EnvCommand.Envs, CopyCommand.Args
Sources(fromCmd) == fromCmd.args
Dir(workdirCmd) == workdirCmd.args[1]
Envs(envCmd) == envCmd.args
GetCliString(captureCmd) == captureCmd.args[1]

\* ENV handled as a single-value directive: only the last command counts
CollectEnvLastOnly(envCmds) ==
  IF Len(envCmds) = 0 THEN <<>> ELSE Envs(envCmds[Len(envCmds)])

\* the ENV loop of Execute
RECURSIVE CollectEnv(_)
CollectEnv(envCmds) ==
  IF Len(envCmds) = 0 THEN <<>>
  ELSE Envs(Head(envCmds)) \o CollectEnv(Tail(envCmds))

\* ---------------------------------------------------------------- lines
LineSet ==
  { <<>>,
    <<"#">>,
    <<"AS", UserRoot>>,
    <<"AS", UserFoo>>,
    <<"FROM", Node1, Node2>>,
    <<"WORKDIR", PV>>,
    <<"ENV", EnvA1, EnvB2>>,
    <<"ENV", EnvA3>>,
    <<"CAPTURE", CliEcho>>,
    <<"CAPTURE", CliLs>>,
    <<"CAPTURE", CliCat>>,
    <<"CAPTURE", CliPs>>,
    <<"COPY", PWS, PWC, PWG, PO>>,
    <<"COPY", POX, POD>>,
    <<"COPY", PPB, PPC, PPH>>,
    <<"RUN", RunCmd>>,
    <<"OUTPUT", POut>>,
    <<"KUBECONFIG", PKube>>,
    <<"AUTHCONFIG", AuthUser, AuthKey>>,
    <<"MOVE", RunCmd>>,
    <<"WORKDIR">>,
    <<"ENV", BadArg>> }

RECURSIVE SeqsUpTo(_, _)
SeqsUpTo(S, n) ==
  IF n = 0 THEN {<<>>}
  ELSE LET R == SeqsUpTo(S, n - 1) IN R \cup {Append(r, x) : r \in {q \in R : Len(q) = n - 1}, x \in S}

Scripts == SeqsUpTo(LineSet, MaxLines)

VARIABLES
  text,      \* the script: the lines the scanner yields
  idx,       \* number of lines the scanner has consumed
  line,      \* Parse's line counter
  scr,       \* the script.Script being built, then executed
  perr,      \* the error Parse returned
  pc,        \* "parse", "parsefail", "parsed", "exec", "done"
  workdir,   \* Execute: workdir.Dir()
  asUid,     \* Execute: the resolved identity
  envPairs,  \* Execute: the collected ENV entries
  ni,        \* Execute: index of the FROM source being processed
  ai,        \* Execute: index of the action being evaluated
  pi,        \* Execute: index of the COPY argument being copied
  fs,        \* the file system
  made,      \* paths created, truncated or written by Execute
  spawned,   \* the CliRun calls made, in order
  trace,     \* the action evaluations made, in order
  execErr,   \* what Execute returned: "none" while it has not returned
  ret,       \* the *script.Script Parse returned: "none", "nil" or "script"
  pname,     \* named parameter: the name given to makeNamedPram
  pvalue,    \* named parameter: the value given to makeNamedPram
  ptoken,    \* named parameter: what makeNamedPram returned
  psplit     \* named parameter: what splitting the token returned

parseVars == <<text, idx, line, perr, ret>>
paramVars == <<pname, pvalue, ptoken, psplit>>
execVars == <<workdir, asUid, envPairs, ni, ai, pi, fs, made, spawned, trace, execErr>>
vars == <<text, idx, line, scr, perr, pc, workdir, asUid, envPairs, ni, ai, pi, fs, made, spawned, trace, execErr,
          ret, pname, pvalue, ptoken, psplit>>

NoErr == [err |-> FALSE]

\* the named-parameter variables before makeNamedPram is called
NoToken == [panic |-> FALSE, str |-> <<>>]
NoSplit == [err |-> FALSE, name |-> <<>>, value |-> <<>>]
ParamIdle ==
  /\ pname = <<>>
  /\ pvalue = <<>>
  /\ ptoken = NoToken
  /\ psplit = NoSplit

\* Execute has not been called
ExecIdle ==
  /\ workdir = <<>>
  /\ asUid = <<>>
  /\ envPairs = <<>>
  /\ ni = 0
  /\ ai = 0
  /\ pi = 0
  /\ fs = InitialFS
  /\ made = {}
  /\ spawned = <<>>
  /\ trace = <<>>
  /\ execErr = "none"

Init ==
  /\ text \in Scripts
  /\ idx = 0
  /\ line = 1
  /\ scr = EmptyScript
  /\ perr = NoErr
  /\ pc = "parse"
  /\ ret = "none"
  /\ ExecIdle
  /\ ParamIdle

\* ------------------------------------------------------------------ Parse
\* Parse keeping the first occurrence of a single-value directive
ParseDirectiveKeepFirst(s, lineNo, cmdName, rawArgs) ==
  IF ~Supported(cmdName) THEN [err |-> [err |-> TRUE, name |-> cmdName, line |-> lineNo, kind |-> "unsupported"], scr |-> s]
  ELSE LET r == NewCommand(cmdName, lineNo, rawArgs) IN
    IF r.err THEN [err |-> [err |-> TRUE, name |-> cmdName, line |-> lineNo, kind |-> "args"], scr |-> s]
    ELSE IF cmdName = CmdEnv
      THEN [err |-> NoErr, scr |-> [s EXCEPT !.Preambles = MapSet(s.Preambles, CmdEnv, Append(MapGet(s.Preambles, CmdEnv), r.cmd))]]
    ELSE IF cmdName \in ConfigDirectives
      THEN [err |-> NoErr, scr |-> [s EXCEPT !.Preambles = MapSet(s.Preambles, cmdName, IF cmdName \in DOMAIN s.Preambles THEN s.Preambles[cmdName] ELSE <<r.cmd>>)]]
    ELSE [err |-> NoErr, scr |-> [s EXCEPT !.Actions = Append(s.Actions, r.cmd)]]

\* the part of Parse's loop body after the comment/blank test
ParseDirective(s, lineNo, cmdName, rawArgs) ==
  IF ~Supported(cmdName) THEN [err |-> [err |-> TRUE, name |-> cmdName, line |-> lineNo, kind |-> "unsupported"], scr |-> s]
  ELSE LET r == NewCommand(cmdName, lineNo, rawArgs) IN
    IF r.err THEN [err |-> [err |-> TRUE, name |-> cmdName, line |-> lineNo, kind |-> "args"], scr |-> s]
    ELSE IF cmdName = CmdEnv
      THEN [err |-> NoErr, scr |-> [s EXCEPT !.Preambles = MapSet(s.Preambles, CmdEnv, Append(MapGet(s.Preambles, CmdEnv), r.cmd))]]
    ELSE IF cmdName \in ConfigDirectives
      THEN [err |-> NoErr, scr |-> [s EXCEPT !.Preambles = MapSet(s.Preambles, cmdName, <<r.cmd>>)]]
    ELSE [err |-> NoErr, scr |-> [s EXCEPT !.Actions = Append(s.Actions, r.cmd)]]

\* only blank lines are skipped, a comment is read as a directive
IsSkippedBlankOnly(t) == Len(t) = 0

\* text == "" || text[0] == '#'
IsSkipped(t) == IF Len(t) = 0 THEN TRUE ELSE Head(t) = "#"

\* a skipped line that does not move the line counter
ParseSkipNoCount ==
  /\ pc = "parse"
  /\ idx < Len(text)
  /\ IsSkipped(text[idx + 1])
  /\ idx' = idx + 1
  /\ UNCHANGED <<text, line, scr, perr, pc, ret>>
  /\ UNCHANGED execVars
  /\ UNCHANGED paramVars

\* a blank line or a comment: only the line counter moves
ParseSkip ==
  /\ pc = "parse"
  /\ idx < Len(text)
  /\ IsSkipped(text[idx + 1])
  /\ idx' = idx + 1
  /\ line' = line + 1
  /\ UNCHANGED <<text, scr, perr, pc, ret>>
  /\ UNCHANGED execVars
  /\ UNCHANGED paramVars

\* a directive line that is accepted
ParseLine ==
  /\ pc = "parse"
  /\ idx < Len(text)
  /\ LET t == text[idx + 1] IN
       /\ ~IsSkipped(t)
       /\ LET r == ParseDirective(scr, line, Head(t), Tail(t)) IN
            /\ ~r.err.err
            /\ scr' = r.scr
  /\ idx' = idx + 1
  /\ line' = line + 1
  /\ UNCHANGED <<text, perr, pc, ret>>
  /\ UNCHANGED execVars
  /\ UNCHANGED paramVars

\* a directive line that is rejected: Parse returns nil and the error
ParseReject ==
  /\ pc = "parse"
  /\ idx < Len(text)
  /\ LET t == text[idx + 1] IN
       /\ ~IsSkipped(t)
       /\ LET r == ParseDirective(scr, line, Head(t), Tail(t)) IN
            /\ r.err.err
            /\ perr' = r.err
  /\ pc' = "parsefail"
  /\ ret' = "nil"
  /\ UNCHANGED <<text, idx, line, scr>>
  /\ UNCHANGED execVars
  /\ UNCHANGED paramVars

\* enforceDefaults adds the missing configuration directives
DefaultArgs(cmdName) ==
  CASE cmdName = CmdAs -> DefaultAsArgs
    [] cmdName = CmdFrom -> DefaultFromArgs
    [] cmdName = CmdAuthConfig -> DefaultAuthArgs
    [] cmdName = CmdWorkDir -> DefaultWorkdirArgs
    [] cmdName = CmdOutput -> DefaultOutputArgs
    [] cmdName = CmdKubeConfig -> DefaultKubeConfigArgs

\* a default that replaces the entry the script has given
enforceDefaultAlways(p, cmdName) ==
  MapSet(p, cmdName, <<NewCommand(cmdName, 0, DefaultArgs(cmdName)).cmd>>)

\* one block of enforceDefaults: the default is added when the key is absent
enforceDefault(p, cmdName) ==
  IF cmdName \in DOMAIN p THEN p
  ELSE MapSet(p, cmdName, <<NewCommand(cmdName, 0, DefaultArgs(cmdName)).cmd>>)

\* enforceDefaults without its last block: KUBECONFIG is never defaulted
enforceDefaultsNoKubeConfig(s) ==
  [s EXCEPT !.Preambles =
     enforceDefault(enforceDefault(enforceDefault(enforceDefault(enforceDefault(
       s.Preambles, CmdAs), CmdFrom), CmdAuthConfig), CmdWorkDir), CmdOutput)]

enforceDefaults(s) ==
  [s EXCEPT !.Preambles =
     enforceDefault(enforceDefault(enforceDefault(enforceDefault(enforceDefault(enforceDefault(
       s.Preambles, CmdAs), CmdFrom), CmdAuthConfig), CmdWorkDir), CmdOutput), CmdKubeConfig)]

\* the scanner is exhausted: Parse returns enforceDefaults(&scr)
ParseDone ==
  /\ pc = "parse"
  /\ idx = Len(text)
  /\ scr' = enforceDefaults(scr)
  /\ pc' = "parsed"
  /\ ret' = "script"
  /\ UNCHANGED <<text, idx, line, perr>>
  /\ UNCHANGED execVars
  /\ UNCHANGED paramVars

\* ---------------------------------------------------------------- Execute
\* the loops of Execute: where control goes after action a of source n
Finished(n, a) == a >= Len(scr.Actions) /\ n >= Len(Sources(scr.Preambles[CmdFrom][1]))

\* the two loops of Execute nested the other way round
AdvanceActionMajor(n, a) ==
  IF Finished(n, a)
    THEN /\ pc' = "done"
         /\ execErr' = "nil"
         /\ UNCHANGED <<ni, ai, pi>>
    ELSE /\ pc' = "exec"
         /\ execErr' = "none"
         /\ ni' = (IF n < Len(Sources(scr.Preambles[CmdFrom][1])) THEN n + 1 ELSE 1)
         /\ ai' = (IF n < Len(Sources(scr.Preambles[CmdFrom][1])) THEN a ELSE a + 1)
         /\ pi' = 1

Advance(n, a) ==
  IF Finished(n, a)
    THEN /\ pc' = "done"
         /\ execErr' = "nil"
         /\ UNCHANGED <<ni, ai, pi>>
    ELSE /\ pc' = "exec"
         /\ execErr' = "none"
         /\ ni' = (IF a < Len(scr.Actions) THEN n ELSE n + 1)
         /\ ai' = (IF a < Len(scr.Actions) THEN a + 1 ELSE 1)
         /\ pi' = 1

\* Execute returns the error e
Return(e) ==
  /\ pc' = "done"
  /\ execErr' = e

\* Execute with the working directory made before the identity is resolved
ExecSetupWorkdirFirst(p, f) ==
  IF CmdFrom \notin DOMAIN p \/ CmdAs \notin DOMAIN p \/ CmdWorkDir \notin DOMAIN p
    THEN [err |-> "config", uid |-> <<>>, workdir |-> <<>>, fs |-> f, env |-> <<>>]
  ELSE LET m == MkdirAll(f, Dir(p[CmdWorkDir][1]))
           cred == GetCredentials(p[CmdAs][1])
       IN IF m.err
            THEN [err |-> "mkdir", uid |-> <<>>, workdir |-> Dir(p[CmdWorkDir][1]), fs |-> f, env |-> <<>>]
          ELSE IF cred.err
            THEN [err |-> "credentials", uid |-> <<>>, workdir |-> Dir(p[CmdWorkDir][1]), fs |-> m.fs, env |-> <<>>]
          ELSE [err |-> "nil", uid |-> cred.uid, workdir |-> Dir(p[CmdWorkDir][1]), fs |-> m.fs,
                env |-> CollectEnv(MapGet(p, CmdEnv))]

\* Execute looking for FROM only once the working directory is made
ExecSetupFromLast(p, f) ==
  IF CmdAs \notin DOMAIN p
    THEN [err |-> "config", uid |-> <<>>, workdir |-> <<>>, fs |-> f, env |-> <<>>]
  ELSE LET cred == GetCredentials(p[CmdAs][1]) IN
    IF cred.err
      THEN [err |-> "credentials", uid |-> <<>>, workdir |-> <<>>, fs |-> f, env |-> <<>>]
    ELSE IF CmdWorkDir \notin DOMAIN p
      THEN [err |-> "config", uid |-> cred.uid, workdir |-> <<>>, fs |-> f, env |-> <<>>]
    ELSE LET m == MkdirAll(f, Dir(p[CmdWorkDir][1])) IN
      IF m.err
        THEN [err |-> "mkdir", uid |-> cred.uid, workdir |-> Dir(p[CmdWorkDir][1]), fs |-> f, env |-> <<>>]
      ELSE IF CmdFrom \notin DOMAIN p
        THEN [err |-> "config", uid |-> cred.uid, workdir |-> Dir(p[CmdWorkDir][1]), fs |-> m.fs, env |-> <<>>]
        ELSE [err |-> "nil", uid |-> cred.uid, workdir |-> Dir(p[CmdWorkDir][1]), fs |-> m.fs,
              env |-> CollectEnv(MapGet(p, CmdEnv))]

\* Execute up to the loops: FROM, AS with its credentials, WORKDIR with its
\* MkdirAll, then ENV, in that order; the first failure is returned
ExecSetup(p, f) ==
  IF CmdFrom \notin DOMAIN p
    THEN [err |-> "config", uid |-> <<>>, workdir |-> <<>>, fs |-> f, env |-> <<>>]
  ELSE IF CmdAs \notin DOMAIN p
    THEN [err |-> "config", uid |-> <<>>, workdir |-> <<>>, fs |-> f, env |-> <<>>]
  ELSE LET cred == GetCredentials(p[CmdAs][1]) IN
    IF cred.err
      THEN [err |-> "credentials", uid |-> <<>>, workdir |-> <<>>, fs |-> f, env |-> <<>>]
    ELSE IF CmdWorkDir \notin DOMAIN p
      THEN [err |-> "config", uid |-> cred.uid, workdir |-> <<>>, fs |-> f, env |-> <<>>]
    ELSE LET m == MkdirAll(f, Dir(p[CmdWorkDir][1])) IN
      IF m.err
        THEN [err |-> "mkdir", uid |-> cred.uid, workdir |-> Dir(p[CmdWorkDir][1]), fs |-> f, env |-> <<>>]
        ELSE [err |-> "nil", uid |-> cred.uid, workdir |-> Dir(p[CmdWorkDir][1]), fs |-> m.fs,
              env |-> CollectEnv(MapGet(p, CmdEnv))]

\* Execute taking the ENV commands out of the Script as it reads them
ExecBeginConsumeEnv ==
  /\ pc = "parsed"
  /\ LET r == ExecSetup(scr.Preambles, fs) IN
       /\ asUid' = r.uid
       /\ workdir' = r.workdir
       /\ envPairs' = r.env
       /\ fs' = r.fs
       /\ made' = made \cup ((DOMAIN r.fs) \ (DOMAIN fs))
       /\ IF r.err # "nil"
            THEN Return(r.err) /\ UNCHANGED <<ni, ai, pi>>
          ELSE IF Len(Sources(scr.Preambles[CmdFrom][1])) = 0 \/ Len(scr.Actions) = 0
            THEN Return("nil") /\ UNCHANGED <<ni, ai, pi>>
          ELSE pc' = "exec" /\ execErr' = "none" /\ ni' = 1 /\ ai' = 1 /\ pi' = 1
  /\ scr' = [scr EXCEPT !.Preambles = MapSet(@, CmdEnv, <<>>)]
  /\ UNCHANGED <<spawned, trace>>
  /\ UNCHANGED parseVars
  /\ UNCHANGED paramVars

\* Execute from its entry to the first action, or to its return
ExecBegin ==
  /\ pc = "parsed"
  /\ LET r == ExecSetup(scr.Preambles, fs) IN
       /\ asUid' = r.uid
       /\ workdir' = r.workdir
       /\ envPairs' = r.env
       /\ fs' = r.fs
       /\ made' = made \cup ((DOMAIN r.fs) \ (DOMAIN fs))
       /\ IF r.err # "nil"
            THEN Return(r.err) /\ UNCHANGED <<ni, ai, pi>>
          ELSE IF Len(Sources(scr.Preambles[CmdFrom][1])) = 0 \/ Len(scr.Actions) = 0
            THEN Return("nil") /\ UNCHANGED <<ni, ai, pi>>
          ELSE pc' = "exec" /\ execErr' = "none" /\ ni' = 1 /\ ai' = 1 /\ pi' = 1
  /\ UNCHANGED <<scr, spawned, trace>>
  /\ UNCHANGED parseVars
  /\ UNCHANGED paramVars

Event(ev, failed, bytes) == [ev |-> ev, node |-> ni, act |-> ai, path |-> pi, err |-> failed, out |-> bytes]

\* a failed COPY argument that makes Execute return the error
CopyPathDoneReturnErr(failed, last) ==
  IF failed THEN Return("copy") /\ UNCHANGED <<ni, ai, pi>>
  ELSE IF last THEN Advance(ni, ai)
  ELSE pi' = pi + 1 /\ UNCHANGED <<pc, execErr, ni, ai>>

\* a call that never returns: Execute stays where it is
Hang ==
  /\ pc' = "hung"
  /\ UNCHANGED <<execErr, ni, ai, pi>>

\* after one COPY argument: an error was only logged, the loops go on
CopyPathDone(failed, last) ==
  IF last THEN Advance(ni, ai)
  ELSE pi' = pi + 1 /\ UNCHANGED <<pc, execErr, ni, ai>>

\* case *script.CopyCommand: one iteration of the loop over cmd.Args()
ExecCopyPath ==
  /\ pc = "exec"
  /\ scr.Actions[ai].name = CmdCopy
  /\ LET args == scr.Actions[ai].args
         path == args[pi]
         rejected == CopyPathRejected(workdir, path)
         r == Walk(fs, workdir, path)
     IN /\ IF rejected
             THEN /\ trace' = Append(trace, Event("skip", TRUE, <<>>))
                  /\ UNCHANGED <<fs, made>>
             ELSE /\ trace' = Append(trace, Event(IF r.hang THEN "hang" ELSE "walk", r.err, <<>>))
                  /\ fs' = r.fs
                  /\ made' = made \cup r.made
        /\ IF ~rejected /\ r.hang THEN Hang
           ELSE CopyPathDone(rejected \/ r.err, pi >= Len(args))
  /\ UNCHANGED <<scr, workdir, asUid, envPairs, spawned>>
  /\ UNCHANGED parseVars
  /\ UNCHANGED paramVars

\* a failed capture that is only logged, as a failed copy is
CaptureAbortLogOnly(e) == Advance(ni, ai)

\* a failed capture: Execute returns the error at once
CaptureAbort(e) ==
  /\ Return(e)
  /\ UNCHANGED <<ni, ai, pi>>

\* the bytes io.Copy hands to one Write: all of them when the reader writes
\* itself out, else what one Read puts into the copy buffer
Piece(out) ==
  IF out.read = 0 THEN Size(out.bytes) ELSE Min(out.read, CopyBuf)

\* writeFile(source, filePath): os.Create, then io.Copy
writeFile(f, out, filePath) ==
  LET c == CreateFile(f, filePath)
      w == CopyBytes(c.fs, filePath, out.bytes, Piece(out))
  IN IF c.err THEN [err |-> "create", fs |-> f, made |-> {}]
     ELSE IF out.kind = "ioerr" THEN [err |-> "write", fs |-> c.fs, made |-> {filePath}]
     ELSE IF w.hang THEN [err |-> "hang", fs |-> w.fs, made |-> {filePath}]
     ELSE [err |-> "nil", fs |-> w.fs, made |-> {filePath}]

\* case *script.CaptureCommand: CliRun, then writeFile
ExecCapture ==
  /\ pc = "exec"
  /\ scr.Actions[ai].name = CmdCapture
  /\ LET cmdStr == GetCliString(scr.Actions[ai])
         filePath == CaptureFilePath(workdir, cmdStr)
     IN \E out \in Outcomes(cmdStr) :
          /\ spawned' = Append(spawned, [uid |-> asUid, env |-> envPairs, cmd |-> cmdStr])
          /\ IF out.kind = "spawnfail"
               THEN /\ trace' = Append(trace, Event("capture", TRUE, <<>>))
                    /\ UNCHANGED <<fs, made>>
                    /\ CaptureAbort("clirun")
               ELSE LET w == writeFile(fs, out, filePath) IN
                    /\ trace' = Append(trace, Event(IF w.err = "hang" THEN "hang" ELSE "capture",
                                                    w.err \notin {"nil", "hang"}, out.bytes))
                    /\ fs' = w.fs
                    /\ made' = made \cup w.made
                    /\ IF w.err = "hang" THEN Hang
                       ELSE IF w.err # "nil" THEN CaptureAbort(w.err) ELSE Advance(ni, ai)
  /\ UNCHANGED <<scr, workdir, asUid, envPairs>>
  /\ UNCHANGED parseVars
  /\ UNCHANGED paramVars

\* default: an action Execute has no case for
ExecOther ==
  /\ pc = "exec"
  /\ scr.Actions[ai].name \notin {CmdCopy, CmdCapture}
  /\ trace' = Append(trace, Event("other", FALSE, <<>>))
  /\ Advance(ni, ai)
  /\ UNCHANGED <<scr, workdir, asUid, envPairs, fs, made, spawned>>
  /\ UNCHANGED parseVars
  /\ UNCHANGED paramVars

Next == ParseSkip \/ ParseLine \/ ParseReject \/ ParseDone \/ ExecBegin \/ ExecCopyPath \/ ExecCapture \/ ExecOther

Spec == Init /\ [][Next]_vars

\* ------------------------------------------------------ named parameters
\* strings.TrimSpace strips every rune unicode.IsSpace accepts; a rune that
\* has no escape in a string is written as its code point
VT == "U+000B"
NEL == "U+0085"
NBSP == "U+00A0"
WideSpaces ==
  {"U+1680", "U+2000", "U+2001", "U+2002", "U+2003", "U+2004", "U+2005", "U+2006", "U+2007",
   "U+2008", "U+2009", "U+200A", "U+2028", "U+2029", "U+202F", "U+205F", "U+3000"}
Whitespace == {" ", "\t", "\n", "\f", "\r", VT, NEL, NBSP} \cup WideSpaces
RECURSIVE TrimLeft(_), TrimRight(_)
TrimLeft(v) == IF Len(v) > 0 /\ Head(v) \in Whitespace THEN TrimLeft(Tail(v)) ELSE v
TrimRight(v) == IF Len(v) > 0 /\ v[Len(v)] \in Whitespace THEN TrimRight(SubSeq(v, 1, Len(v) - 1)) ELSE v
TrimSpace(v) == TrimRight(TrimLeft(v))

\* makeNamedPram: value[0] of an empty trimmed value is an index out of
\* range, the call panics and no token is built
Quotes == {"\"", "'"}
makeNamedPram(name, value) ==
  LET v == TrimSpace(value) IN
  IF Len(v) = 0 THEN [panic |-> TRUE, str |-> <<>>]
  ELSE IF v[1] \in Quotes THEN [panic |-> FALSE, str |-> name \o <<":">> \o v]
  ELSE [panic |-> FALSE, str |-> name \o <<":", "'">> \o v \o <<"'">>]

\* namedParamRegx: ^([a-z0-9_\-]+)(:)(["']{0,1}.+["']{0,1})$
NameAlphabet == {"a", "b", "c", "d", "e", "f", "g", "h", "i", "j", "k", "l", "m", "n", "o", "p", "q", "r", "s", "t", "u", "v", "w", "x", "y", "z"} \cup {"0", "1", "2", "3", "4", "5", "6", "7", "8", "9"} \cup {"_", "-"}
NameEnd(str) ==
  IF \E i \in 1..Len(str) : str[i] = ":"
    THEN (CHOOSE i \in 1..Len(str) : str[i] = ":" /\ \A j \in 1..(i - 1) : str[j] # ":") - 1
    ELSE Len(str)
isNamedParam(str) ==
  LET n == NameEnd(str) IN
  /\ n >= 1
  /\ n + 2 <= Len(str)
  /\ \A j \in 1..n : str[j] \in NameAlphabet
  /\ \A j \in (n + 2)..Len(str) : str[j] # "\n"

\* namedParamSplit: the name before the first colon, the value after it
\* with its surrounding quotes stripped; any other token is an error
StripQuotes(v) ==
  LET a == IF Len(v) > 0 /\ Head(v) \in Quotes THEN Tail(v) ELSE v
  IN IF Len(a) > 0 /\ a[Len(a)] \in Quotes THEN SubSeq(a, 1, Len(a) - 1) ELSE a
namedParamSplit(str) ==
  IF ~isNamedParam(str) THEN [err |-> TRUE, name |-> <<>>, value |-> <<>>]
  ELSE [err |-> FALSE, name |-> SubSeq(str, 1, NameEnd(str)),
        value |-> StripQuotes(SubSeq(str, NameEnd(str) + 2, Len(str)))]

\* the names and values the token constructor is called with
MaxValueLen == 2
ParamNames == {<<"a">>, <<"a", "0">>, <<"_", "-">>}
ValueChars == {"a", " ", "\f", NBSP, "'", "\"", ":"}
ParamValues == SeqsUpTo(ValueChars, MaxValueLen)

InitParam ==
  /\ text = <<>>
  /\ idx = 0
  /\ line = 1
  /\ scr = EmptyScript
  /\ perr = NoErr
  /\ pc = "param"
  /\ ret = "none"
  /\ ExecIdle
  /\ pname \in ParamNames
  /\ pvalue \in ParamValues
  /\ ptoken = NoToken
  /\ psplit = NoSplit

\* the token is built from the name and the value
MakeParam ==
  /\ pc = "param"
  /\ ptoken' = makeNamedPram(pname, pvalue)
  /\ pc' = IF ptoken'.panic THEN "panic" ELSE "built"
  /\ UNCHANGED <<pname, pvalue, psplit, scr>>
  /\ UNCHANGED parseVars
  /\ UNCHANGED execVars

\* the token is parsed back into a name and a value
SplitParam ==
  /\ pc = "built"
  /\ psplit' = namedParamSplit(ptoken.str)
  /\ pc' = "split"
  /\ UNCHANGED <<pname, pvalue, ptoken, scr>>
  /\ UNCHANGED parseVars
  /\ UNCHANGED execVars

NextParam == MakeParam \/ SplitParam

SpecParam == InitParam /\ [][NextParam]_vars

\* ------------------------------------------- Execute on a hand-built Script
\* a Script assembled by the caller of exec.New, not by Parse: any of FROM,
\* AS, WORKDIR and ENV may be missing from its Preambles
MaxActions == 2
Hand(cmdName, rawArgs) == [name |-> cmdName, line |-> 1, args |-> rawArgs]
OneOf(cmdName, S) == {<<>>} \cup {cmdName :> <<Hand(cmdName, a)>> : a \in S}
HandPreambles ==
  { f @@ a @@ w @@ e :
      f \in OneOf(CmdFrom, {<<Node1, Node2>>, <<NodeLocal>>}),
      a \in OneOf(CmdAs, {<<UserRoot>>, <<UserFoo>>}),
      w \in OneOf(CmdWorkDir, {<<PW>>, <<PV>>}),
      e \in OneOf(CmdEnv, {<<EnvA1, EnvB2>>}) }
HandActions ==
  { Hand(CmdCapture, <<CliEcho>>), Hand(CmdCopy, <<POX, POD>>), Hand(CmdRun, <<RunCmd>>) }
HandScripts ==
  { [Preambles |-> p, Actions |-> acts] : p \in HandPreambles, acts \in SeqsUpTo(HandActions, MaxActions) }

InitDirect ==
  /\ text = <<>>
  /\ idx = 0
  /\ line = 1
  /\ scr \in HandScripts
  /\ perr = NoErr
  /\ pc = "parsed"
  /\ ret = "script"
  /\ ExecIdle
  /\ ParamIdle

NextExec == ExecBegin \/ ExecCopyPath \/ ExecCapture \/ ExecOther

SpecDirect == InitDirect /\ [][NextExec]_vars

\* ================================================================ claims
\* Parse has returned a Script
Parsed == pc \in {"parsed", "exec", "done", "hung"}

\* the physical line numbers, among the first n, that hold directive d
LinesOf(d, n) == {i \in 1..n : Len(text[i]) > 0 /\ text[i][1] = d}
MaxOf(S) == CHOOSE x \in S : \A y \in S : y <= x

\* the Command a constructor builds from physical line i
CommandAt(i) == [name |-> text[i][1], line |-> i, args |-> Tail(text[i])]

\* C1: after a successful Parse the Preambles hold exactly one Command under
\* each of AS, FROM, AUTHCONFIG, OUTPUT, WORKDIR and KUBECONFIG, whatever
\* subset of them the script itself contains.
C1_OneEntryPerConfigDirective ==
  Parsed => \A d \in ConfigDirectives :
              /\ d \in DOMAIN scr.Preambles
              /\ Len(scr.Preambles[d]) = 1
              /\ scr.Preambles[d][1].name = d

\* a parsed script that repeats AS, and has no FROM, WORKDIR or KUBECONFIG line
C1_Witness ==
  /\ pc = "parsed"
  /\ Cardinality(LinesOf(CmdAs, Len(text))) >= 2
  /\ LinesOf(CmdFrom, Len(text)) = {}
  /\ LinesOf(CmdWorkDir, Len(text)) = {}
  /\ LinesOf(CmdKubeConfig, Len(text)) = {}

\* the (source, action) pairs in node-major order
NodeMajor(nNodes, nActs) ==
  [k \in 1..(nNodes * nActs) |-> <<((k - 1) \div nActs) + 1, ((k - 1) % nActs) + 1>>]

\* the pairs whose evaluation has started, in the order it started
RECURSIVE EvalPairs(_)
EvalPairs(t) ==
  IF Len(t) = 0 THEN <<>>
  ELSE LET e == t[Len(t)]
           before == EvalPairs(SubSeq(t, 1, Len(t) - 1))
       IN IF e.path = 1 THEN Append(before, <<e.node, e.act>>) ELSE before

\* the action lines of the script, in source order
RECURSIVE ActionLines(_)
ActionLines(n) ==
  IF n = 0 THEN <<>>
  ELSE IF Len(text[n]) > 0 /\ text[n][1] \in ActionDirectives
    THEN Append(ActionLines(n - 1), CommandAt(n))
    ELSE ActionLines(n - 1)

IsPrefixSeq(a, b) == Len(a) <= Len(b) /\ SubSeq(b, 1, Len(a)) = a

\* C2: Execute evaluates the actions one at a time in node-major declaration
\* order: the pairs evaluated so far are always an initial part of the
\* enumeration (source 1 with every action in script order, then source 2, ...),
\* no pair occurs twice, and when Execute returns nil every pair was evaluated.
C2_NodeMajorOrder ==
  Parsed =>
    LET all == NodeMajor(Len(Sources(scr.Preambles[CmdFrom][1])), Len(scr.Actions))
        done == EvalPairs(trace)
    IN /\ scr.Actions = ActionLines(Len(text))
       /\ IsPrefixSeq(done, all)
       /\ (pc = "exec" /\ pi = 1 => Len(done) < Len(all) /\ all[Len(done) + 1] = <<ni, ai>>)
       /\ (pc = "exec" /\ pi > 1 => Len(done) > 0 /\ done[Len(done)] = <<ni, ai>>)
       /\ (pc = "done" /\ execErr = "nil" => done = all)

\* a run over two sources and two actions that returned nil
C2_Witness ==
  /\ pc = "done"
  /\ execErr = "nil"
  /\ Len(Sources(scr.Preambles[CmdFrom][1])) = 2
  /\ Len(scr.Actions) = 2
  /\ scr.Actions[1].name # scr.Actions[2].name
  /\ Len(EvalPairs(trace)) = 4

\* C3: a failed Capture is the last thing Execute does: it returns a non-nil
\* error and no action is evaluated after the failing one. A Capture whose
\* write blocks on a full pipe is the last thing evaluated too, and Execute
\* does not return.
C3_CaptureFailureAborts ==
  \A k \in 1..Len(trace) :
    /\ (trace[k].ev = "capture" /\ trace[k].err) =>
         /\ k = Len(trace)
         /\ pc = "done"
         /\ execErr \notin {"nil", "none"}
         /\ Len(spawned) = Cardinality({j \in 1..k : trace[j].ev = "capture"})
    /\ (trace[k].ev = "hang" /\ scr.Actions[trace[k].act].name = CmdCapture) =>
         /\ k = Len(trace)
         /\ pc = "hung"
         /\ execErr = "none"

\* a Capture whose output file could not be created failed on the first
\* source while actions and a source remained
C3_Witness ==
  /\ pc = "done"
  /\ execErr = "create"
  /\ Len(trace) >= 1
  /\ trace[Len(trace)].ev = "capture"
  /\ trace[Len(trace)].err
  /\ trace[Len(trace)].node = 1
  /\ trace[Len(trace)].act < Len(scr.Actions)
  /\ Len(Sources(scr.Preambles[CmdFrom][1])) = 2

\* C4: when the AS preamble names a user that does not resolve, Execute
\* returns a non-nil error without any side effect: no CliRun call, no file
\* or directory created or written, no action evaluated.
C4_UnknownUserNoSideEffect ==
  (Parsed /\ scr.Preambles[CmdAs][1].args[1] \notin KnownUsers) =>
    /\ pc # "exec"
    /\ (pc = "done" => execErr \notin {"nil", "none"})
    /\ spawned = <<>>
    /\ trace = <<>>
    /\ made = {}
    /\ fs = InitialFS

\* Execute returned for a script with an unresolvable AS, a WORKDIR that does
\* not exist yet and an action
C4_Witness ==
  /\ pc = "done"
  /\ scr.Preambles[CmdAs][1].args[1] = UserFoo
  /\ Dir(scr.Preambles[CmdWorkDir][1]) = PV
  /\ Len(scr.Actions) >= 1

\* the position that follows a COPY argument in the loops of Execute
CopySuccessor(e) ==
  LET nArgs == Len(scr.Actions[e.act].args)
      nActs == Len(scr.Actions)
  IN IF e.path < nArgs THEN <<e.node, e.act, e.path + 1>>
     ELSE IF e.act < nActs THEN <<e.node, e.act + 1, 1>>
     ELSE <<e.node + 1, 1, 1>>

\* C5: a failure while copying one source path of a Copy action never makes
\* Execute return an error and never stops the run: right after the failed
\* path Execute is at the next path, action or source (or has returned nil
\* when nothing remains), and a non-nil return always comes from a Capture.
\* Execute stops without returning only in a write that blocks on a full
\* pipe, which is no failure of the walk.
C5_CopyFailureContinues ==
  /\ \A k \in 1..Len(trace) :
       (trace[k].ev \in {"skip", "walk"} /\ trace[k].err) =>
         LET next == CopySuccessor(trace[k])
             more == next[1] <= Len(Sources(scr.Preambles[CmdFrom][1]))
         IN /\ (k < Len(trace) => more /\ <<trace[k + 1].node, trace[k + 1].act, trace[k + 1].path>> = next)
            /\ (k = Len(trace) /\ more => pc = "exec" /\ <<ni, ai, pi>> = next /\ execErr = "none")
            /\ (k = Len(trace) /\ ~more => pc = "done" /\ execErr = "nil")
  /\ (pc = "done" /\ execErr # "nil" /\ Len(trace) > 0 => trace[Len(trace)].ev = "capture")
  /\ (pc = "hung" => Len(trace) > 0 /\ trace[Len(trace)].ev = "hang" /\ ~trace[Len(trace)].err)

\* a rejected path and a failed walk, each followed by later evaluations, up
\* to an action of the second source
C5_Witness ==
  /\ \E k \in 1..Len(trace) : trace[k].ev = "skip" /\ k < Len(trace)
  /\ \E k \in 1..Len(trace) :
       /\ trace[k].ev = "walk"
       /\ trace[k].err
       /\ trace[k].node = 1
       /\ \E m \in (k + 1)..Len(trace) : trace[m].node = 2

\* the path lies inside the directory, or is the directory itself
InsideOrEqual(dir, path) == IsPrefixSeq(dir, path)

\* C6: every source path of a Copy action that is the working directory or
\* lies inside it is skipped: it is never walked, so nothing is created,
\* truncated or written for it.
C6_InsideWorkdirSkipped ==
  \A k \in 1..Len(trace) :
    (trace[k].ev \in {"skip", "walk"}
       /\ InsideOrEqual(workdir, scr.Actions[trace[k].act].args[trace[k].path]))
      => trace[k].ev = "skip"

\* the number of lines Parse has accepted so far
Consumed == IF pc = "parse" THEN idx ELSE Len(text)

\* C7: for each single-value preamble directive that occurs in the script, the
\* Preambles entry is exactly the one Command built from its last occurrence
\* (that line's number and arguments); a directive that has not occurred is
\* not given an entry by the occurrences of the others.
C7_LastOccurrenceWins ==
  (pc = "parse" \/ Parsed) =>
    \A d \in ConfigDirectives :
      LET L == LinesOf(d, Consumed) IN
        IF L # {}
          THEN d \in DOMAIN scr.Preambles /\ scr.Preambles[d] = <<CommandAt(MaxOf(L))>>
          ELSE pc = "parse" => d \notin DOMAIN scr.Preambles

\* a parsed script with two different AS lines around a WORKDIR line
C7_Witness ==
  /\ pc = "parsed"
  /\ Len(text) = 3
  /\ text[1] = <<"AS", UserRoot>>
  /\ text[2] = <<"WORKDIR", PV>>
  /\ text[3] = <<"AS", UserFoo>>
  /\ scr.Preambles[CmdAs][1].line = 3

\* the ENV commands of the first n lines, and their entries, in source order
RECURSIVE EnvCommands(_)
EnvCommands(n) ==
  IF n = 0 THEN <<>>
  ELSE IF Len(text[n]) > 0 /\ text[n][1] = CmdEnv
    THEN Append(EnvCommands(n - 1), CommandAt(n))
    ELSE EnvCommands(n - 1)

RECURSIVE EnvEntries(_)
EnvEntries(n) ==
  IF n = 0 THEN <<>>
  ELSE IF Len(text[n]) > 0 /\ text[n][1] = CmdEnv
    THEN EnvEntries(n - 1) \o Tail(text[n])
    ELSE EnvEntries(n - 1)

\* C8: Preambles[ENV] holds one Command per ENV line in source order; the
\* environment list Execute builds is the concatenation of their entries in
\* that order, nothing dropped or reordered, and every CliRun call gets it.
C8_EnvAccumulates ==
  /\ (pc = "parse" \/ Parsed) => MapGet(scr.Preambles, CmdEnv) = EnvCommands(Consumed)
  /\ (pc = "exec" \/ (pc = "done" /\ Len(trace) > 0)) => envPairs = EnvEntries(Len(text))
  /\ \A k \in 1..Len(spawned) : spawned[k].env = EnvEntries(Len(text))

\* a subprocess was started for a script with two ENV lines
C8_Witness ==
  /\ Len(spawned) >= 1
  /\ Cardinality(LinesOf(CmdEnv, Len(text))) = 2
  /\ Len(spawned[1].env) = 3

\* every configuration directive is the default, and there is no ENV
AllDefaults ==
  /\ \A d \in ConfigDirectives : scr.Preambles[d][1].line = 0
  /\ CmdEnv \notin DOMAIN scr.Preambles

\* the path is free, or holds a regular file, before the run
Writable(p) == p \notin DOMAIN InitialFS \/ InitialFS[p].kind = "reg"

\* C9 amended: for a script whose only action is one CAPTURE and whose
\* preambles are defaults, when nothing but a regular file is at the output
\* path before the run, a nil return from Execute means that exactly one file
\* was produced, in the working directory, named flatCmd(command line) +
\* ".txt", that it holds the captured bytes and that it exists.
C9_SingleCaptureFileWritable ==
  (pc = "done" /\ execErr = "nil" /\ AllDefaults
     /\ Len(scr.Actions) = 1 /\ scr.Actions[1].name = CmdCapture
     /\ Writable(Append(Dir(scr.Preambles[CmdWorkDir][1]), flatCmd(scr.Actions[1].args[1]) \o TxtSuffix))) =>
    LET file == Append(Dir(scr.Preambles[CmdWorkDir][1]), flatCmd(scr.Actions[1].args[1]) \o TxtSuffix)
    IN /\ Len(trace) = 1
       /\ file \in DOMAIN fs
       /\ fs[file] = RegEntry(trace[1].out)
       /\ {p \in made : fs[p].kind = "reg"} = {file}
       /\ \A p \in DOMAIN fs : p # file => p \in DOMAIN InitialFS /\ fs[p] = InitialFS[p]

\* C9 as stated: for a script whose only action is one CAPTURE and whose
\* preambles are defaults, a nil return from Execute means that exactly one
\* file was produced, in the working directory, named flatCmd(command line) +
\* ".txt", that it holds the captured bytes and that it exists.
C9_SingleCaptureFile ==
  (pc = "done" /\ execErr = "nil" /\ AllDefaults
     /\ Len(scr.Actions) = 1 /\ scr.Actions[1].name = CmdCapture) =>
    LET file == Append(Dir(scr.Preambles[CmdWorkDir][1]), flatCmd(scr.Actions[1].args[1]) \o TxtSuffix)
    IN /\ Len(trace) = 1
       /\ file \in DOMAIN fs
       /\ fs[file] = RegEntry(trace[1].out)
       /\ {p \in made : fs[p].kind = "reg"} = {file}
       /\ \A p \in DOMAIN fs : p # file => p \in DOMAIN InitialFS /\ fs[p] = InitialFS[p]

\* the script of the single-command test ran to a nil return
C9_Witness ==
  /\ pc = "done"
  /\ execErr = "nil"
  /\ text = << <<"CAPTURE", CliEcho>> >>
  /\ fs[Append(PW, <<"e", "_", "H", ".", "t", "x", "t">>)].content = Bytes(<<8, 9>>)

\* C10: after a nil return the output of every Capture action is in a
\* subdirectory of the working directory named after the source: the file
\* <workdir>/<address>/<flatCmd(command line)>.txt exists.
C10_PerNodeSubdirectory ==
  (pc = "done" /\ execErr = "nil") =>
    \A n \in 1..Len(Sources(scr.Preambles[CmdFrom][1])) :
      \A a \in 1..Len(scr.Actions) :
        scr.Actions[a].name = CmdCapture =>
          (workdir \o <<Sources(scr.Preambles[CmdFrom][1])[n]>>
             \o <<flatCmd(scr.Actions[a].args[1]) \o TxtSuffix>>) \in DOMAIN fs

\* the Capture actions of the script and the file Execute names for each
CaptureActs == {a \in 1..Len(scr.Actions) : scr.Actions[a].name = CmdCapture}
OutputFile(a) == Append(workdir, flatCmd(scr.Actions[a].args[1]) \o TxtSuffix)
IsRegular(f, p) == p \in DOMAIN f /\ f[p].kind = "reg"

\* the bytes the last evaluation of action a captured
LastOut(a) ==
  LET K == {k \in 1..Len(trace) : trace[k].act = a} IN trace[MaxOf(K)].out

\* C11 as stated: whenever Execute returns nil on a script with two Capture
\* actions, the two actions have two distinct output files, both present.
C11_TwoCapturesTwoFiles ==
  (pc = "done" /\ execErr = "nil" /\ Cardinality(CaptureActs) = 2) =>
    \A a, b \in CaptureActs :
      a # b => /\ OutputFile(a) # OutputFile(b)
               /\ IsRegular(fs, OutputFile(a))
               /\ IsRegular(fs, OutputFile(b))

\* C11 amended: when Execute returns nil on a script with two Capture actions
\* whose output paths held nothing but a regular file before the run: if the
\* flattened command lines differ, the two output files are distinct and
\* both present, and when the two are the only actions each file holds what
\* its own action captured last; if the flattened command lines are the
\* same, the two actions share one file, which holds what the later action
\* captured last.
C11_DistinctCommandsTwoFiles ==
  (pc = "done" /\ execErr = "nil" /\ Cardinality(CaptureActs) = 2) =>
    \A a, b \in CaptureActs :
      (a < b /\ Writable(OutputFile(a)) /\ Writable(OutputFile(b))) =>
        IF flatCmd(scr.Actions[a].args[1]) # flatCmd(scr.Actions[b].args[1])
          THEN /\ OutputFile(a) # OutputFile(b)
               /\ IsRegular(fs, OutputFile(a))
               /\ IsRegular(fs, OutputFile(b))
               /\ {OutputFile(a), OutputFile(b)} \subseteq made
               /\ Len(scr.Actions) = 2 =>
                    /\ fs[OutputFile(a)].content = LastOut(a)
                    /\ fs[OutputFile(b)].content = LastOut(b)
          ELSE /\ OutputFile(a) = OutputFile(b)
               /\ IsRegular(fs, OutputFile(a))
               /\ OutputFile(a) \in made
               /\ Len(scr.Actions) = 2 => fs[OutputFile(a)].content = LastOut(b)

\* the script of the two-command test ran to a nil return and the two files
\* hold different bytes
C11_Witness ==
  /\ pc = "done"
  /\ execErr = "nil"
  /\ text = << <<"CAPTURE", CliEcho>>, <<"CAPTURE", CliLs>> >>
  /\ fs[OutputFile(1)].content = Bytes(<<7>>)
  /\ fs[OutputFile(2)].content = Bytes(<<8, 9>>)

\* the entries of the tree rooted at path p, and its regular files
Tree(f, p) == {q \in DOMAIN f : IsPrefixSeq(p, q)}
TreeRegs(f, p) == {q \in Tree(f, p) : f[q].kind = "reg"}
MadeRegs == {q \in made : IsRegular(fs, q)}

\* C12: right after an error-free Copy of a tree outside the working
\* directory that holds only directories and regular files, into a working
\* directory that holds nothing but directories and regular files either,
\* every regular file of the tree has a destination file of its own, of the
\* same byte length, among the files the run has written.
C12_CopyReproducesTree ==
  (Len(trace) > 0 /\ trace[Len(trace)].ev = "walk" /\ ~trace[Len(trace)].err) =>
    LET e == trace[Len(trace)]
        src == scr.Actions[e.act].args[e.path]
        regs == TreeRegs(fs, src)
    IN (/\ ~InsideOrEqual(workdir, src)
        /\ \A q \in Tree(fs, src) \cup Tree(fs, workdir) : fs[q].kind \in {"dir", "reg"})
       => \E g \in [regs -> MadeRegs] :
            /\ \A q \in regs : Size(fs[g[q]].content) = Size(fs[q].content)
            /\ \A q1, q2 \in regs : q1 # q2 => g[q1] # g[q2]

\* physical line i is a directive line Parse rejects
Offends(i) ==
  /\ Len(text[i]) > 0
  /\ text[i][1] # "#"
  /\ \/ text[i][1] \notin DOMAIN Cmds
     \/ ~Cmds[text[i][1]].Supported
     \/ NewCommand(text[i][1], i, Tail(text[i])).err
Offending == {i \in 1..Len(text) : Offends(i)}
FirstOffending == CHOOSE i \in Offending : \A j \in Offending : i <= j

\* C13: Parse fails exactly at the first offending physical line: it returns
\* a nil Script and an error, it has read no line after that one, and the
\* error of an unsupported directive carries the directive and its 1-based
\* physical line number, blank and comment lines counted; a script with an
\* offending line is never parsed.
C13_StopsAtFirstOffendingLine ==
  /\ pc = "parsefail" =>
       /\ ret = "nil"
       /\ perr.err
       /\ Offending # {}
       /\ idx = FirstOffending - 1
       /\ line = FirstOffending
       /\ perr.kind = "unsupported" =>
            /\ perr.name = text[FirstOffending][1]
            /\ perr.line = FirstOffending
  /\ Offending # {} =>
       /\ ~Parsed
       /\ ret # "script"
       /\ idx < FirstOffending

\* a blank line, then an unsupported directive, then another offending line:
\* the error names MOVE at line 2
C13_Witness ==
  /\ pc = "parsefail"
  /\ text = << <<>>, <<"MOVE", RunCmd>>, <<"WORKDIR">> >>
  /\ perr.kind = "unsupported"
  /\ perr.line = 2
  /\ ret = "nil"

\* the entries Execute requires that the Preambles do not have
Lacking == {CmdFrom, CmdAs, CmdWorkDir} \ DOMAIN scr.Preambles
NoSideEffect ==
  /\ spawned = <<>>
  /\ trace = <<>>
  /\ made = {}
  /\ fs = InitialFS

\* C14 as stated: when the Preambles lack FROM, AS or WORKDIR, Execute
\* returns the configuration error and has no side effect.
C14_MissingEntryConfigError ==
  Lacking # {} =>
    /\ pc # "exec"
    /\ pc = "done" => execErr = "config"
    /\ NoSideEffect

\* C14 amended: when the Preambles lack FROM, AS or WORKDIR, Execute returns
\* a non-nil error and has no side effect; the error is the configuration
\* error, except that with FROM and AS present and an AS identity that does
\* not resolve it is the identity error, returned before WORKDIR is looked up.
C14_MissingEntryError ==
  Lacking # {} =>
    /\ pc # "exec"
    /\ pc = "done" =>
         /\ execErr \in {"config", "credentials"}
         /\ execErr = "credentials" <=>
              /\ Lacking = {CmdWorkDir}
              /\ scr.Preambles[CmdAs][1].args[1] \notin KnownUsers
    /\ NoSideEffect

\* Execute returned the configuration error for a script with FROM, a
\* resolvable AS and two actions but no WORKDIR
C14_Witness ==
  /\ pc = "done"
  /\ execErr = "config"
  /\ Lacking = {CmdWorkDir}
  /\ scr.Preambles[CmdAs][1].args[1] = UserRoot
  /\ Len(scr.Actions) = 2
  /\ NoSideEffect

\* the script with its blank and comment lines removed, and the physical
\* line of each line that is left
IsDirectiveLine(l) == IF Len(l) = 0 THEN FALSE ELSE l[1] # "#"
Stripped(t) == SelectSeq(t, IsDirectiveLine)
DirectiveLines == {i \in 1..Len(text) : IsDirectiveLine(text[i])}
RECURSIVE NthOf(_, _)
NthOf(S, n) ==
  LET m == CHOOSE x \in S : \A y \in S : x <= y
  IN IF n = 1 THEN m ELSE NthOf(S \ {m}, n - 1)

\* Parse on a script without blank or comment lines: the loop body applied
\* to line after line, then enforceDefaults
RECURSIVE ParseFrom(_, _, _)
ParseFrom(s, t, i) ==
  IF i > Len(t) THEN [err |-> NoErr, scr |-> enforceDefaults(s)]
  ELSE LET r == ParseDirective(s, i, t[i][1], Tail(t[i]))
       IN IF r.err.err THEN r ELSE ParseFrom(r.scr, t, i + 1)

\* a Script with the line numbers of its Commands erased
EraseCmds(cmds) == [k \in 1..Len(cmds) |-> [name |-> cmds[k].name, args |-> cmds[k].args]]
EraseLines(s) ==
  [Preambles |-> [d \in DOMAIN s.Preambles |-> EraseCmds(s.Preambles[d])],
   Actions |-> EraseCmds(s.Actions)]
CmdsOf(s) ==
  {s.Actions[k] : k \in 1..Len(s.Actions)}
    \cup UNION {{s.Preambles[d][k] : k \in 1..Len(s.Preambles[d])} : d \in DOMAIN s.Preambles}

\* C15: Parse gives the script the same Preambles and Actions, line numbers
\* aside, as it gives the script with all blank and comment lines removed,
\* and fails on the same directive when it fails; the line numbers of the
\* Commands and of the error are the physical lines of their directives.
C15_SkippedLinesNoEffect ==
  LET r == ParseFrom(EmptyScript, Stripped(text), 1) IN
  /\ pc = "parsed" =>
       /\ ~r.err.err
       /\ EraseLines(scr) = EraseLines(r.scr)
       /\ \A c \in CmdsOf(scr) : c.line # 0 => (c.line \in DirectiveLines /\ c = CommandAt(c.line))
  /\ pc = "parsefail" =>
       /\ r.err.err
       /\ perr.name = r.err.name
       /\ perr.kind = r.err.kind
       /\ perr.line = NthOf(DirectiveLines, r.err.line)
  /\ pc = "parse" => line = idx + 1

\* a comment and a blank line before the only directive, which is parsed
\* with line number 3
C15_Witness ==
  /\ pc = "parsed"
  /\ text = << <<"#">>, <<>>, <<"CAPTURE", CliEcho>> >>
  /\ Len(scr.Actions) = 1
  /\ scr.Actions[1].line = 3

\* C16: for every name and every value the token constructor builds a token
\* that isNamedParam recognizes, and parsing the token back yields the
\* original name and value.
C16_NamedParamRoundTrip ==
  /\ pc \in {"panic", "built", "split"} =>
       /\ ~ptoken.panic
       /\ isNamedParam(ptoken.str)
  /\ pc = "split" =>
       /\ ~psplit.err
       /\ psplit.name = pname
       /\ psplit.value = pvalue

\* C17: the step in which Parse applies enforceDefaults leaves the Actions
\* and every entry already in the Preambles (ENV included) as they are, adds
\* exactly the absent configuration directives, each as one Command with
\* line 0 and the default arguments, so that a configuration Command has
\* line 0 iff no line of the script holds its directive; applying
\* enforceDefaults to the result changes nothing.
C17_DefaultsOnlyAddMissing ==
  [][(pc = "parse" /\ pc' = "parsed") =>
       /\ scr'.Actions = scr.Actions
       /\ \A d \in DOMAIN scr.Preambles :
            d \in DOMAIN scr'.Preambles /\ scr'.Preambles[d] = scr.Preambles[d]
       /\ DOMAIN scr'.Preambles = DOMAIN scr.Preambles \cup ConfigDirectives
       /\ \A d \in ConfigDirectives \ DOMAIN scr.Preambles :
            scr'.Preambles[d] = <<[name |-> d, line |-> 0, args |-> DefaultArgs(d)]>>
       /\ \A d \in ConfigDirectives :
            scr'.Preambles[d][1].line = 0 <=> LinesOf(d, Len(text)) = {}
       /\ enforceDefaults(scr') = scr']_vars

\* a parsed script that had an AS line, an ENV line and an action but no
\* FROM line
C17_Witness ==
  /\ pc = "parsed"
  /\ text = << <<"AS", UserFoo>>, <<"ENV", EnvA1, EnvB2>>, <<"CAPTURE", CliEcho>> >>
  /\ scr.Preambles[CmdAs][1].line = 1
  /\ scr.Preambles[CmdFrom][1].line = 0
  /\ Len(scr.Preambles[CmdEnv]) = 1
  /\ Len(scr.Actions) = 1

\* C18: no step of Execute, from its entry to its return, on any path,
\* changes the Script: Preambles and Actions stay what they were.
C18_ScriptReadOnly ==
  [][(pc = "parsed" \/ pc = "exec") =>
       (scr'.Preambles = scr.Preambles /\ scr'.Actions = scr.Actions)]_vars

\* Execute returned the error of a failed Capture after a Copy path error
\* was logged, on a Script that has ENV commands
C18_Witness ==
  /\ pc = "done"
  /\ execErr = "clirun"
  /\ CmdEnv \in DOMAIN scr.Preambles
  /\ \E k \in 1..Len(trace) : trace[k].ev = "walk" /\ trace[k].err

====
